---- MODULE Spec2Model ----
(***************************************************************************)
(* Model of the rule engine of feature_flow: the dependency graph          *)
(* (core/data_flow.py), the node hierarchy with its flow-context           *)
(* (core/nodes.py) and the engine's run loop (core/engine.py).             *)
(***************************************************************************)
EXTENDS Integers, Sequences, FiniteSets, TLC

(***************************************************************************)
(* Universe and bounds                                                     *)
(***************************************************************************)
\* Node names used by the model; "start_node" is the engine's StartNode.
Names == {"start_node", "a", "b", "c"}

\* At most this many nodes are registered while a graph is being edited.
MaxNodes == 3

\* At most this many dependency edges are recorded while a graph is edited.
MaxEdges == 2

\* Variable names that nodes publish and inherit.
Vars == {"v"}

\* Python values a script can bind: an int, a str and a function object.
Values == {"i1", "s1", "fn"}

\* Type descriptors used in expected_input_schema.
Schemas == {"int", "string"}

\* datetime.now() is read as a number in 0..MaxClock.
MaxClock == 1

\* Clock reads of one node execution that may or may not see the clock advance.
MaxReads == 2

VARIABLES
    nodes,          \* DataFlow.nodes: registered names, in dict (registration) order
    dependencies,   \* DataFlow.dependencies: ordered dict, Seq of [name, deps]
    lastCall,       \* outcome of the last DataFlow query or mutation
    kind,           \* class of the node object registered under each name
    node_object,    \* identity of the node object registered under each name
    logic_code,     \* logic_code / condition: the outcomes the script can have, {} when unset
    tracked_variables,      \* Node.tracked_variables
    expected_input_schema,  \* Node.expected_input_schema
    inputs,         \* Node.inputs: handles (in dict order) and context entries
    flow_context,   \* Node.flow_context: ordered dict of [var, value, source, time]
    should_continue,\* GateNode.should_continue
    collected_data, \* CollectionNode.collected_data
    context,        \* RuleEngine.context
    execution_results,  \* RuleEngine.execution_results
    clock,          \* the last value datetime.now() returned
    phase,          \* "idle", or "running" inside the loop of execute()
    order,          \* execution_order of the running execute()
    idx,            \* position of the loop of execute() in order
    outcome,        \* how the last execute() ended: "none", "raised", "returned"
    laterRun,       \* history: an execute() call was made before the current one
    invoked,        \* history: nodes whose execute() was invoked by the current call
    bodyRan,        \* history: nodes whose script body ran in the current call
    recorded,       \* history: nodes whose result was recorded by the current call
    lastUpdate,     \* history: the last update_flow_context call, flow-context before and after
    lastBody        \* history: the node whose body completed in the last step, and what it bound

graphVars == <<nodes, dependencies>>

nodeCfgVars == <<kind, node_object, logic_code, tracked_variables, expected_input_schema>>

nodeStateVars == <<inputs, flow_context, should_continue, collected_data>>

runVars == <<context, execution_results, clock, phase, order, idx, outcome, laterRun,
             invoked, bodyRan, recorded, lastUpdate, lastBody>>

(***************************************************************************)
(* Sequence helpers                                                        *)
(***************************************************************************)
Range(s) == {s[i] : i \in DOMAIN s}

Contains(s, x) == \E i \in DOMAIN s : s[i] = x

\* list.remove(x): drops the first occurrence of x
RemoveFirst(s, x) ==
    IF ~Contains(s, x) THEN s
    ELSE LET k == CHOOSE i \in DOMAIN s : s[i] = x /\ \A j \in 1..(i-1) : s[j] # x
         IN  SubSeq(s, 1, k-1) \o SubSeq(s, k+1, Len(s))

IndexOf(s, x) == CHOOSE i \in DOMAIN s : s[i] = x

(***************************************************************************)
(* DataFlow (core/data_flow.py)                                            *)
(***************************************************************************)
NodeSet == Range(nodes)

DepKeys == {dependencies[i].name : i \in DOMAIN dependencies}

\* self.dependencies.get(node_name, [])
get_node_dependencies(n) ==
    IF n \in DepKeys
    THEN dependencies[CHOOSE i \in DOMAIN dependencies : dependencies[i].name = n].deps
    ELSE <<>>

EdgeCount ==
    LET RECURSIVE Sum(_)
        Sum(i) == IF i = 0 THEN 0 ELSE Len(dependencies[i].deps) + Sum(i-1)
    IN  Sum(Len(dependencies))

\* dict assignment d[k] = v on the ordered dict: in place when k is a key
DictSet(d, k, v) ==
    IF \E i \in DOMAIN d : d[i].name = k
    THEN [i \in DOMAIN d |-> IF d[i].name = k THEN [name |-> k, deps |-> v] ELSE d[i]]
    ELSE Append(d, [name |-> k, deps |-> v])

\* ReleaseChildren with the in-degree test off by one: a child joins the
\* queue when one dependency is still missing
RECURSIVE ReleaseChildrenOffByOne(_, _, _, _)
ReleaseChildrenOffByOne(i, current, indeg, queue) ==
    IF i > Len(dependencies) THEN [indeg |-> indeg, queue |-> queue]
    ELSE LET child == dependencies[i].name
             deps  == dependencies[i].deps
         IN  IF Contains(deps, current)
             THEN LET d == indeg[child] - 1
                  IN  ReleaseChildrenOffByOne(i + 1, current,
                                              [indeg EXCEPT ![child] = d],
                                              IF d = 1 THEN Append(queue, child) ELSE queue)
             ELSE ReleaseChildrenOffByOne(i + 1, current, indeg, queue)

\* the inner loop of _topological_sort: every child that lists `current`
\* loses one in-degree and joins the queue when it reaches zero
RECURSIVE ReleaseChildren(_, _, _, _)
ReleaseChildren(i, current, indeg, queue) ==
    IF i > Len(dependencies) THEN [indeg |-> indeg, queue |-> queue]
    ELSE LET child == dependencies[i].name
             deps  == dependencies[i].deps
         IN  IF Contains(deps, current)
             THEN LET d == indeg[child] - 1
                  IN  ReleaseChildren(i + 1, current,
                                      [indeg EXCEPT ![child] = d],
                                      IF d = 0 THEN Append(queue, child) ELSE queue)
             ELSE ReleaseChildren(i + 1, current, indeg, queue)

\* KahnLoop putting each node it takes in front of the result
RECURSIVE KahnLoopPrepends(_, _, _)
KahnLoopPrepends(queue, indeg, result) ==
    IF queue = <<>> THEN result
    ELSE LET current == Head(queue)
             r == ReleaseChildren(1, current, indeg, Tail(queue))
         IN  KahnLoopPrepends(r.queue, r.indeg, <<current>> \o result)

\* KahnLoop serving the queue last-in first-out
RECURSIVE KahnLoopLifo(_, _, _)
KahnLoopLifo(queue, indeg, result) ==
    IF queue = <<>> THEN result
    ELSE LET current == queue[Len(queue)]
             r == ReleaseChildren(1, current, indeg, SubSeq(queue, 1, Len(queue) - 1))
         IN  KahnLoopLifo(r.queue, r.indeg, Append(result, current))

\* the outer loop of _topological_sort: the queue is served first-in first-out
RECURSIVE KahnLoop(_, _, _)
KahnLoop(queue, indeg, result) ==
    IF queue = <<>> THEN result
    ELSE LET current == Head(queue)
             r == ReleaseChildren(1, current, indeg, Tail(queue))
         IN  KahnLoop(r.queue, r.indeg, Append(result, current))

\* OrderIncomplete with the comparison slipped from "differs" to "exceeds"
OrderIncompleteExceeds(result) == Len(result) > Len(nodes)

\* the length test that turns an incomplete order into "Circular dependency detected"
OrderIncomplete(result) == Len(result) # Len(nodes)

\* DataFlow._topological_sort / get_execution_order
get_execution_order ==
    LET in_degree == [n \in NodeSet |-> Len(get_node_dependencies(n))]
        queue     == SelectSeq(nodes, LAMBDA n : in_degree[n] = 0)
        result    == KahnLoop(queue, in_degree, <<>>)
    IN  IF OrderIncomplete(result)
        THEN [raised |-> TRUE, order |-> <<>>]
        ELSE [raised |-> FALSE, order |-> result]

\* Children following the edges backwards: the dependencies of `current`
ChildrenBackwards(current) == get_node_dependencies(current)

\* the nodes that list `current` among their dependencies, in dict order
Children(current) ==
    LET hit == SelectSeq(dependencies, LAMBDA e : Contains(e.deps, current))
    IN  [i \in DOMAIN hit |-> hit[i].name]

\* the breadth-first traversal of validate_structure
RECURSIVE ReachLoop(_, _)
ReachLoop(queue, reachable) ==
    IF queue = <<>> THEN reachable
    ELSE LET current == Head(queue)
         IN  IF current \in reachable
             THEN ReachLoop(Tail(queue), reachable)
             ELSE ReachLoop(Tail(queue) \o Children(current), reachable \cup {current})

ErrMissingStart == [err |-> "missing_start_node", node |-> ""]
ErrUnreachable(n) == [err |-> "unreachable", node |-> n]
ErrCycle == [err |-> "cycle", node |-> ""]

\* validate_structure without the reachability pass: only the cycle is reported
validate_structure_NoReachability ==
    IF "start_node" \notin NodeSet
    THEN [valid |-> FALSE, errors |-> <<ErrMissingStart>>]
    ELSE LET errors == IF get_execution_order.raised THEN <<ErrCycle>> ELSE <<>>
         IN  [valid |-> Len(errors) = 0, errors |-> errors]

\* validate_structure without the cycle test: only unreachable nodes are reported
validate_structure_NoCycleTest ==
    IF "start_node" \notin NodeSet
    THEN [valid |-> FALSE, errors |-> <<ErrMissingStart>>]
    ELSE LET reachable == ReachLoop(<<"start_node">>, {})
             missing   == SelectSeq(nodes, LAMBDA n : n \notin reachable)
             unreach   == [i \in DOMAIN missing |-> ErrUnreachable(missing[i])]
         IN  [valid |-> Len(unreach) = 0, errors |-> unreach]

\* DataFlow.validate_structure
validate_structure ==
    IF "start_node" \notin NodeSet
    THEN [valid |-> FALSE, errors |-> <<ErrMissingStart>>]
    ELSE LET reachable == ReachLoop(<<"start_node">>, {})
             missing   == SelectSeq(nodes, LAMBDA n : n \notin reachable)
             unreach   == [i \in DOMAIN missing |-> ErrUnreachable(missing[i])]
             errors    == IF get_execution_order.raised
                          THEN Append(unreach, ErrCycle) ELSE unreach
         IN  [valid |-> Len(errors) = 0, errors |-> errors]

(***************************************************************************)
(* DataFlow operations as actions                                          *)
(***************************************************************************)
NoCall == [op |-> "none", raised |-> FALSE, order |-> <<>>, valid |-> FALSE, errors |-> <<>>]

\* DataFlow.add_node
DFAddNode(n) ==
    /\ n \in NodeSet \/ Len(nodes) < MaxNodes
    /\ nodes' = IF n \in NodeSet THEN nodes ELSE Append(nodes, n)
    /\ dependencies' = DictSet(dependencies, n, <<>>)
    /\ lastCall' = [NoCall EXCEPT !.op = "add_node"]
    /\ UNCHANGED <<nodeCfgVars, nodeStateVars, runVars>>

\* the graph as a value: DataFlow.nodes and DataFlow.dependencies
Graph == [nodes |-> nodes, dependencies |-> dependencies]

\* g.dependencies.get(n, [])
GraphDeps(g, n) ==
    IF \E i \in DOMAIN g.dependencies : g.dependencies[i].name = n
    THEN g.dependencies[CHOOSE i \in DOMAIN g.dependencies : g.dependencies[i].name = n].deps
    ELSE <<>>

\* DataFlow.add_node on graph g: the name is registered and its dependency
\* list is set to []
DataFlowAddNode(g, n) ==
    [nodes |-> IF Contains(g.nodes, n) THEN g.nodes ELSE Append(g.nodes, n),
     dependencies |-> DictSet(g.dependencies, n, <<>>)]

\* DataFlow.add_dependency appending the source without looking for it in the
\* list
DataFlowAddDependencyAppends(g, s, t) ==
    IF ~Contains(g.nodes, s) \/ ~Contains(g.nodes, t)
    THEN [raised |-> TRUE, graph |-> g]
    ELSE [raised |-> FALSE,
          graph |-> [g EXCEPT !.dependencies =
                         DictSet(g.dependencies, t, Append(GraphDeps(g, t), s))]]

\* DataFlow.add_dependency on graph g: whether it raises, and the graph it leaves
DataFlowAddDependency(g, s, t) ==
    IF ~Contains(g.nodes, s) \/ ~Contains(g.nodes, t)
    THEN [raised |-> TRUE, graph |-> g]
    ELSE [raised |-> FALSE,
          graph |-> IF Contains(GraphDeps(g, t), s) THEN g
                    ELSE [g EXCEPT !.dependencies =
                              DictSet(g.dependencies, t, Append(GraphDeps(g, t), s))]]

\* DataFlow.add_dependency
DFAddDependency(s, t) ==
    LET r == DataFlowAddDependency(Graph, s, t)
    IN  /\ r.raised \/ Contains(get_node_dependencies(t), s) \/ EdgeCount < MaxEdges
        /\ nodes' = r.graph.nodes
        /\ dependencies' = r.graph.dependencies
        /\ lastCall' = [NoCall EXCEPT !.op = "add_dependency", !.raised = r.raised]
        /\ UNCHANGED <<nodeCfgVars, nodeStateVars, runVars>>

\* remove_node deleting the node and its list, but not its name from the
\* lists of the other nodes
DFRemoveNodeKeepsEdges(n) ==
    /\ nodes' = SelectSeq(nodes, LAMBDA m : m # n)
    /\ dependencies' = SelectSeq(dependencies, LAMBDA e : e.name # n)
    /\ lastCall' = [NoCall EXCEPT !.op = "remove_node"]
    /\ UNCHANGED <<nodeCfgVars, nodeStateVars, runVars>>

\* DataFlow.remove_node
DFRemoveNode(n) ==
    /\ nodes' = SelectSeq(nodes, LAMBDA m : m # n)
    /\ dependencies' =
            LET kept == SelectSeq(dependencies, LAMBDA e : e.name # n)
            IN  [i \in DOMAIN kept |-> [name |-> kept[i].name,
                                        deps |-> RemoveFirst(kept[i].deps, n)]]
    /\ lastCall' = [NoCall EXCEPT !.op = "remove_node"]
    /\ UNCHANGED <<nodeCfgVars, nodeStateVars, runVars>>

\* DataFlow.remove_dependency
DFRemoveDependency(s, t) ==
    /\ dependencies' =
            IF t \in DepKeys /\ Contains(get_node_dependencies(t), s)
            THEN DictSet(dependencies, t, RemoveFirst(get_node_dependencies(t), s))
            ELSE dependencies
    /\ nodes' = nodes
    /\ lastCall' = [NoCall EXCEPT !.op = "remove_dependency"]
    /\ UNCHANGED <<nodeCfgVars, nodeStateVars, runVars>>

\* a call of DataFlow.get_execution_order; the outcome is kept in lastCall
DFGetExecutionOrder ==
    /\ lastCall' = [NoCall EXCEPT !.op = "get_execution_order",
                                  !.raised = get_execution_order.raised,
                                  !.order = get_execution_order.order]
    /\ UNCHANGED <<graphVars, nodeCfgVars, nodeStateVars, runVars>>

\* a call of DataFlow.validate_structure; the outcome is kept in lastCall
DFValidateStructure ==
    /\ lastCall' = [NoCall EXCEPT !.op = "validate_structure",
                                  !.valid = validate_structure.valid,
                                  !.errors = validate_structure.errors]
    /\ UNCHANGED <<graphVars, nodeCfgVars, nodeStateVars, runVars>>

(***************************************************************************)
(* Values, type descriptors, serialisation (type/schema.py, nodes.py)      *)
(***************************************************************************)
\* the Python type of a value
PyType(x) ==
    CASE x = "i1" -> "int"
      [] x = "s1" -> "str"
      [] x = "fn" -> "function"

\* json.dumps(value, cls=UniversalEncoder) succeeds
Serializable(x) == PyType(x) \in {"int", "str"}

\* DataValidator.from_string(schema).validate(value), ValueSchema.validate
Validate(x, schema) ==
    CASE schema = "int"    -> PyType(x) = "int"
      [] schema = "string" -> PyType(x) = "str"
      [] OTHER             -> FALSE

(***************************************************************************)
(* Flow-context (core/nodes.py)                                            *)
(***************************************************************************)
FcKeys(fc) == {fc[i].var : i \in DOMAIN fc}

FcEntry(fc, var) == fc[CHOOSE i \in DOMAIN fc : fc[i].var = var]

\* get_flow_context_values
get_flow_context_values(fc) == [x \in FcKeys(fc) |-> FcEntry(fc, x).value]

\* datetime.now(): the clock has advanced by `tick` since it was last read
ReadClock(c, tick) == IF c + tick > MaxClock THEN MaxClock ELSE c + tick

Tick(ticks, k) == IF k \in DOMAIN ticks THEN ticks[k] ELSE 0

\* update_flow_context storing the entry before it tests serialisability
update_flow_context_StoreFirst(fc, var, value, source, current_time) ==
    LET entry == [var |-> var, value |-> value, source |-> source, time |-> current_time]
        stored == IF var \in FcKeys(fc)
                  THEN [i \in DOMAIN fc |-> IF fc[i].var = var THEN entry ELSE fc[i]]
                  ELSE Append(fc, entry)
    IN  [raised |-> ~Serializable(value), fc |-> stored]

\* the merge rule replacing an existing entry also when the clock reading is
\* the stored one
OverwritesOnTie(current_time, existing_time) == current_time >= existing_time

\* the merge rule of update_flow_context: an existing entry is replaced only
\* by a strictly later call
Overwrites(current_time, existing_time) == current_time > existing_time

\* Node.update_flow_context, called at time current_time
update_flow_context(fc, var, value, source, current_time) ==
    IF ~Serializable(value)
    THEN [raised |-> TRUE, fc |-> fc]
    ELSE LET entry == [var |-> var, value |-> value, source |-> source,
                       time |-> current_time]
         IN  IF var \in FcKeys(fc)
             THEN IF Overwrites(current_time, FcEntry(fc, var).time)
                  THEN [raised |-> FALSE,
                        fc |-> [i \in DOMAIN fc |-> IF fc[i].var = var THEN entry ELSE fc[i]]]
                  ELSE [raised |-> FALSE, fc |-> fc]
             ELSE [raised |-> FALSE, fc |-> Append(fc, entry)]

\* the (handle, entry) pairs merge_flow_context_from_inputs iterates over
RECURSIVE InheritedEntries(_)
InheritedEntries(handles) ==
    IF handles = <<>> THEN <<>>
    ELSE flow_context[Head(handles)] \o InheritedEntries(Tail(handles))

\* whether merge_flow_context_from_inputs validates an inherited variable
NeedsValidation(n, var) ==
    var \in DOMAIN expected_input_schema[n] /\ kind[n] # "collection"

\* the state of a node execution after one update_flow_context call at time t:
\* `pre` keeps the flow-context the call started from
AfterUpdate(st, u, t) ==
    [raised |-> IF u.raised THEN "serialization" ELSE "none",
     fc |-> u.fc, clock |-> t, reads |-> st.reads + 1, called |-> TRUE, pre |-> st.fc]

\* Node.merge_flow_context_from_inputs: st = [raised, fc, clock, reads, called, pre]
RECURSIVE MergeLoop(_, _, _, _)
MergeLoop(n, entries, st, ticks) ==
    IF entries = <<>> THEN st
    ELSE LET e == Head(entries)
         IN  IF e.var \in DOMAIN expected_input_schema[n] /\ kind[n] = "collection"
             THEN MergeLoop(n, Tail(entries), st, ticks)
             ELSE IF NeedsValidation(n, e.var)
                     /\ ~Validate(e.value, expected_input_schema[n][e.var])
             THEN [st EXCEPT !.raised = "validation"]
             ELSE LET t == ReadClock(st.clock, Tick(ticks, st.reads + 1))
                      u == update_flow_context(st.fc, e.var, e.value, e.source, t)
                  IN  IF u.raised THEN AfterUpdate(st, u, t)
                      ELSE MergeLoop(n, Tail(entries), AfterUpdate(st, u, t), ticks)

\* merge_flow_context_from_inputs rebuilding the flow-context from the handles
\* alone, dropping what the node held
merge_flow_context_rebuilt(n, inp, ticks) ==
    MergeLoop(n, InheritedEntries(inp.handles),
              [raised |-> "none", fc |-> <<>>, clock |-> clock, reads |-> 0,
               called |-> FALSE, pre |-> flow_context[n]],
              ticks)

\* Node.merge_flow_context_from_inputs, called at the start of execute()
merge_flow_context_from_inputs(n, inp, ticks) ==
    MergeLoop(n, InheritedEntries(inp.handles),
              [raised |-> "none", fc |-> flow_context[n], clock |-> clock, reads |-> 0,
               called |-> FALSE, pre |-> flow_context[n]],
              ticks)

\* the loop that publishes tracked variables found in local_vars
RECURSIVE PublishLoop(_, _, _, _, _)
PublishLoop(n, tracked, local_vars, st, ticks) ==
    IF tracked = <<>> THEN st
    ELSE LET var == Head(tracked)
         IN  IF var \notin DOMAIN local_vars
             THEN PublishLoop(n, Tail(tracked), local_vars, st, ticks)
             ELSE LET t == ReadClock(st.clock, Tick(ticks, st.reads + 1))
                      u == update_flow_context(st.fc, var, local_vars[var], n, t)
                  IN  IF u.raised THEN AfterUpdate(st, u, t)
                      ELSE PublishLoop(n, Tail(tracked), local_vars,
                                       AfterUpdate(st, u, t), ticks)

\* {**d1, **d2}: the entries of d2 win
DictMerge(d1, d2) ==
    [x \in (DOMAIN d1) \cup (DOMAIN d2) |-> IF x \in DOMAIN d2 THEN d2[x] ELSE d1[x]]

(***************************************************************************)
(* NodeResult and the execute() of each node class (core/nodes.py)         *)
(***************************************************************************)
NoData == [vals |-> <<>>, gate |-> "none", collected |-> <<>>]

\* NodeResult(success, data, error, status, node_type); status defaults to
\* "executed" and node_type to None
NodeResult(success, data, error, status, node_type) ==
    [success |-> success, data |-> data, error |-> error, status |-> status,
     node_type |-> node_type]

\* no entry in execution_results
NoResult == NodeResult(FALSE, NoData, "none", "absent", "None")

\* what one execute() hands back: the exception that escaped it (or "none"),
\* its NodeResult, and the node state it leaves
Exec(exc, res, st, sc, coll, ran) ==
    [exc |-> exc, res |-> res, fc |-> st.fc, clock |-> st.clock, sc |-> sc,
     collected |-> coll, ran |-> ran,
     upd |-> [called |-> st.called, raised |-> st.raised = "serialization",
              before |-> st.pre, after |-> st.fc]]

NoMerge(n) ==
    [raised |-> "none", fc |-> flow_context[n], clock |-> clock, reads |-> 0,
     called |-> FALSE, pre |-> flow_context[n]]

\* StartNode.execute
StartExecute(n) ==
    Exec("none", NodeResult(TRUE, NoData, "none", "executed", "start"),
         NoMerge(n), should_continue[n], collected_data[n], FALSE)

\* GateNode.execute; body = the outcome of evaluating the condition
GateExecute(n, inp, body, ticks) ==
    IF logic_code[n] = {}
    THEN Exec("none", NodeResult(FALSE, NoData, "no_condition", "executed", "gate"),
              NoMerge(n), should_continue[n], collected_data[n], FALSE)
    ELSE LET m == merge_flow_context_from_inputs(n, inp, ticks)
         IN  IF m.raised # "none"
             THEN Exec(m.raised, NoResult, m, should_continue[n], collected_data[n], FALSE)
             ELSE IF body.raises
             THEN Exec("none", NodeResult(FALSE, NoData, "script", "failed", "gate"),
                       m, should_continue[n], collected_data[n], TRUE)
             ELSE Exec("none",
                       NodeResult(TRUE, [NoData EXCEPT !.gate = IF body.cond THEN "True" ELSE "False"],
                                  "none", "executed", "gate"),
                       m, body.cond, collected_data[n], TRUE)

\* the payload of a Logic or Collection result: the tracked variables
TrackedPayload(n, fc) ==
    [NoData EXCEPT !.vals = [x \in Range(tracked_variables[n]) |-> FcEntry(fc, x).value]]

\* the part of execute() shared by Logic and Collection after the body ran:
\* publish the tracked variables, then build the payload
PublishTracked(n, local_vars, st, ticks, sc, coll, node_type) ==
    LET p == PublishLoop(n, tracked_variables[n], local_vars, st, ticks)
    IN  IF p.raised # "none"
        THEN Exec("none", NodeResult(FALSE, NoData, p.raised, "failed", node_type),
                  p, sc, coll, TRUE)
        ELSE IF \E x \in Range(tracked_variables[n]) : x \notin FcKeys(p.fc)
        THEN Exec("none", NodeResult(FALSE, NoData, "key_error", "failed", node_type),
                  p, sc, coll, TRUE)
        ELSE Exec("none", NodeResult(TRUE, TrackedPayload(n, p.fc), "none", "executed", node_type),
                  p, sc, coll, TRUE)

\* LogicNode.execute; body = the outcome of exec(logic_code)
LogicExecute(n, inp, body, ticks) ==
    IF logic_code[n] = {}
    THEN Exec("none", NodeResult(FALSE, NoData, "no_logic_code", "executed", "logic"),
              NoMerge(n), should_continue[n], collected_data[n], FALSE)
    ELSE LET m == merge_flow_context_from_inputs(n, inp, ticks)
         IN  IF m.raised # "none"
             THEN Exec(m.raised, NoResult, m, should_continue[n], collected_data[n], FALSE)
             ELSE IF body.raises
             THEN Exec("none", NodeResult(FALSE, NoData, "script", "failed", "logic"),
                       m, should_continue[n], collected_data[n], TRUE)
             ELSE LET before == DictMerge(DictMerge(inp.ctx, context),
                                          get_flow_context_values(m.fc))
                      local_vars == DictMerge(before, body.assign)
                  IN  PublishTracked(n, local_vars, m, ticks, should_continue[n],
                                     collected_data[n], "logic")

\* the all-or-nothing test of CollectionNode.execute for one upstream handle
SchemaValues(n, h) ==
    LET values == get_flow_context_values(flow_context[h])
        kept   == {x \in DOMAIN values :
                     /\ x \in DOMAIN expected_input_schema[n]
                     /\ Validate(values[x], expected_input_schema[n][x])}
    IN  [x \in kept |-> values[x]]

\* Collects without the length test: any handle with a flow-context is kept
CollectsWithoutLengthTest(n, h) == flow_context[h] # <<>>

\* a handle is kept when its flow-context is not empty and as many variables
\* passed as the schema names
Collects(n, h) ==
    /\ flow_context[h] # <<>>
    /\ Cardinality(DOMAIN SchemaValues(n, h)) = Cardinality(DOMAIN expected_input_schema[n])

\* CollectionNode.execute
CollectionExecute(n, inp, body, ticks) ==
    LET m == merge_flow_context_from_inputs(n, inp, ticks)
    IN  IF m.raised # "none"
        THEN Exec("none", NodeResult(FALSE, NoData, m.raised, "failed", "collection"),
                  m, should_continue[n], collected_data[n], FALSE)
        ELSE LET collected_items ==
                     [h \in {x \in Range(inp.handles) : Collects(n, x)} |-> SchemaValues(n, h)]
             IN  IF logic_code[n] # {}
                 THEN IF body.raises
                      THEN Exec("none",
                                NodeResult(FALSE, NoData, "script", "failed", "collection"),
                                m, should_continue[n], collected_items, TRUE)
                      ELSE PublishTracked(n,
                                          DictMerge(DictMerge(inp.ctx, context), body.assign),
                                          m, ticks, should_continue[n], collected_items,
                                          "collection")
                 ELSE Exec("none",
                           NodeResult(TRUE, [NoData EXCEPT !.collected = collected_items],
                                      "none", "executed", "collection"),
                           m, should_continue[n], collected_items, FALSE)

\* node.execute(...), dispatched on the class of the node
NodeExecute(n, inp, body, ticks) ==
    CASE kind[n] = "start"      -> StartExecute(n)
      [] kind[n] = "gate"       -> GateExecute(n, inp, body, ticks)
      [] kind[n] = "logic"      -> LogicExecute(n, inp, body, ticks)
      [] kind[n] = "collection" -> CollectionExecute(n, inp, body, ticks)

(***************************************************************************)
(* RuleEngine (core/engine.py)                                             *)
(***************************************************************************)
HasResult(d) == execution_results[d].status # "absent"

\* dep_result and dep_result.success
Succeeded(d) == HasResult(d) /\ execution_results[d].success

\* the first loop of _execute_node: the node is refused when a Gate among its
\* dependencies succeeded and denies continuation
BlockedByGate(n) ==
    \E i \in DOMAIN get_node_dependencies(n) :
        LET d == get_node_dependencies(n)[i]
        IN  kind[d] = "gate" /\ Succeeded(d) /\ ~should_continue[d]

\* AllDependenciesFailed testing only that a result exists, not that it succeeded
AllDependenciesWithoutResult(n) ==
    /\ get_node_dependencies(n) # <<>>
    /\ \A i \in DOMAIN get_node_dependencies(n) : ~HasResult(get_node_dependencies(n)[i])

\* the second test of _execute_node: there are dependencies and none succeeded
AllDependenciesFailed(n) ==
    /\ get_node_dependencies(n) # <<>>
    /\ \A i \in DOMAIN get_node_dependencies(n) : ~Succeeded(get_node_dependencies(n)[i])

\* whether _get_node_inputs passes a handle to dependency d
PassesHandle(d) ==
    /\ ~(HasResult(d) /\ ~execution_results[d].success)
    /\ ~(kind[d] = "gate" /\ ~should_continue[d])

\* RuleEngine._get_node_inputs: the handles, in dependency order, and the context
_get_node_inputs(n) ==
    [handles |-> SelectSeq(get_node_dependencies(n), PassesHandle), ctx |-> context]

\* node.add_input for every entry of the new inputs: existing keys keep their
\* place in the dict, new keys are appended; nothing is ever removed
AddInputs(old, new) ==
    [handles |-> old.handles \o SelectSeq(new.handles, LAMBDA h : ~Contains(old.handles, h)),
     ctx |-> DictMerge(old.ctx, new.ctx)]

\* the except clause of the loop of execute(): NodeResult(success=False, error=str(e))
HandlerResult(e) == NodeResult(FALSE, NoData, e, "executed", "None")

\* RecordResult that keeps only the results of nodes that succeeded
RecordResultOnlySuccess(results, n, r) == IF r.success THEN [results EXCEPT ![n] = r] ELSE results

\* self.execution_results[node_name] = result
RecordResult(results, n, r) == [results EXCEPT ![n] = r]

\* the outcome of running a script: it raises, or it yields a condition value
\* and binds some variables
Raises == [raises |-> TRUE, cond |-> FALSE, assign |-> <<>>]
Yields(c) == [raises |-> FALSE, cond |-> c, assign |-> <<>>]
Binds(f) == [raises |-> FALSE, cond |-> FALSE, assign |-> f]

\* the outcomes node.execute can draw from: those of the node's script
Bodies(n) == IF logic_code[n] = {} THEN {Yields(FALSE)} ELSE logic_code[n]

\* the `variables` argument of execute(), as the context it yields
Contexts == {<<>>}

\* no update_flow_context call was made by the last step
NoUpdate == [node |-> "", raised |-> FALSE, before |-> <<>>, after |-> <<>>]

\* no script body completed in the last step
NoBody == [node |-> "", assign |-> <<>>]

\* RuleEngine.execute up to the loop: build the context, validate, order
ExecuteStart ==
    /\ phase = "idle"
    /\ laterRun' = (outcome # "none")
    /\ \E ctx \in Contexts : context' = ctx
    /\ invoked' = {}
    /\ bodyRan' = {}
    /\ recorded' = {}
    /\ IF ~validate_structure.valid
       THEN /\ outcome' = "raised"
            /\ lastCall' = [NoCall EXCEPT !.op = "validate_structure",
                                          !.valid = validate_structure.valid,
                                          !.errors = validate_structure.errors]
            /\ UNCHANGED <<phase, order, idx>>
       ELSE /\ order' = get_execution_order.order
            /\ lastCall' = [NoCall EXCEPT !.op = "get_execution_order",
                                          !.raised = get_execution_order.raised,
                                          !.order = get_execution_order.order]
            /\ idx' = 1
            /\ phase' = "running"
            /\ outcome' = "running"
    /\ lastUpdate' = NoUpdate
    /\ lastBody' = NoBody
    /\ UNCHANGED <<graphVars, nodeCfgVars, nodeStateVars, execution_results, clock>>

\* one iteration of the loop of execute(): _execute_node on order[idx] and the
\* recording of its result; the last iteration returns from execute()
ExecuteNode ==
    /\ phase = "running"
    /\ LET n == order[idx]
           last == idx = Len(order)
       IN  /\ idx' = idx + 1
           /\ phase' = IF last THEN "idle" ELSE "running"
           /\ outcome' = IF last THEN "returned" ELSE "running"
           /\ recorded' = recorded \cup {n}
           /\ IF BlockedByGate(n)
              THEN /\ execution_results' = RecordResult(execution_results, n,
                            NodeResult(FALSE, NoData, "blocked_by_gate", "blocked", "None"))
                   /\ lastUpdate' = NoUpdate
                   /\ lastBody' = NoBody
                   /\ UNCHANGED <<nodeStateVars, clock, invoked, bodyRan>>
              ELSE IF AllDependenciesFailed(n)
              THEN /\ execution_results' = RecordResult(execution_results, n,
                            NodeResult(FALSE, NoData, "all_dependencies_failed", "blocked", "None"))
                   /\ lastUpdate' = NoUpdate
                   /\ lastBody' = NoBody
                   /\ UNCHANGED <<nodeStateVars, clock, invoked, bodyRan>>
              ELSE \E body \in Bodies(n), ticks \in [1..MaxReads -> {0, 1}] :
                     LET inp == AddInputs(inputs[n], _get_node_inputs(n))
                         x   == NodeExecute(n, inp, body, ticks)
                     IN  /\ inputs' = [inputs EXCEPT ![n] = inp]
                         /\ flow_context' = [flow_context EXCEPT ![n] = x.fc]
                         /\ should_continue' = [should_continue EXCEPT ![n] = x.sc]
                         /\ collected_data' = [collected_data EXCEPT ![n] = x.collected]
                         /\ clock' = x.clock
                         /\ invoked' = invoked \cup {n}
                         /\ bodyRan' = IF x.ran THEN bodyRan \cup {n} ELSE bodyRan
                         /\ lastBody' = IF x.ran /\ ~body.raises
                                        THEN [node |-> n, assign |-> body.assign]
                                        ELSE NoBody
                         /\ lastUpdate' = IF x.upd.called
                                          THEN [node |-> n, raised |-> x.upd.raised,
                                                before |-> x.upd.before, after |-> x.upd.after]
                                          ELSE NoUpdate
                         /\ execution_results' = RecordResult(execution_results, n,
                                IF x.exc # "none" THEN HandlerResult(x.exc) ELSE x.res)
    /\ UNCHANGED <<graphVars, lastCall, nodeCfgVars, context, order, laterRun>>

\* data_flow.remove_node(n) on the engine's graph, between two execute() calls
EngineRemoveNode(n) ==
    /\ phase = "idle"
    /\ n \in NodeSet
    /\ DFRemoveNode(n)

\* node.clear_flow_context() for every registered node
ClearedFlowContexts == [n \in Names |-> IF n \in NodeSet THEN <<>> ELSE flow_context[n]]

\* RuleEngine.reset, between two execute() calls
Reset ==
    /\ phase = "idle"
    /\ execution_results' = [n \in Names |-> NoResult]
    /\ context' = <<>>
    /\ flow_context' = ClearedFlowContexts
    /\ lastCall' = [NoCall EXCEPT !.op = "reset"]
    /\ lastUpdate' = NoUpdate
    /\ lastBody' = NoBody
    /\ UNCHANGED <<graphVars, nodeCfgVars, inputs, should_continue, collected_data, clock,
                   phase, order, idx, outcome, laterRun, invoked, bodyRan, recorded>>

\* RuleEngine.clear_all_nodes_flow_context, between two execute() calls
ClearAllNodesFlowContext ==
    /\ phase = "idle"
    /\ flow_context' = ClearedFlowContexts
    /\ lastCall' = [NoCall EXCEPT !.op = "clear_all_nodes_flow_context"]
    /\ lastUpdate' = NoUpdate
    /\ lastBody' = NoBody
    /\ UNCHANGED <<graphVars, nodeCfgVars, inputs, should_continue, collected_data, context,
                   execution_results, clock, phase, order, idx, outcome, laterRun, invoked,
                   bodyRan, recorded>>

(***************************************************************************)
(* Building an engine, and its JSON form (core/engine.py)                  *)
(***************************************************************************)
\* a condition that can hold, fail to hold, or raise
GateScript == {Raises, Yields(TRUE), Yields(FALSE)}

\* a body that binds v to an int, or raises
SmallScript == {Raises, Binds([x \in {"v"} |-> "i1"])}

\* identities of the node objects a client holds for one name
ObjectIds == {"o1", "o2"}

\* the node objects of the client: one per name for a and b, two for c, and
\* the StartNode the engine made for itself
ClientObjects ==
    {[name |-> n, id |-> "o1"] : n \in Names} \cup {[name |-> "c", id |-> "o2"]}

\* the class of each client object; the second object named c is a StartNode
ObjectKind(ob) ==
    CASE ob.name = "start_node" -> "start"
      [] ob.name = "a" -> "logic"
      [] ob.name = "b" -> "gate"
      [] ob.name = "c" -> IF ob.id = "o1" THEN "collection" ELSE "start"

\* logic_code / condition of each client object
ObjectCode(ob) ==
    CASE ob.name = "a" -> SmallScript
      [] ob.name = "b" -> GateScript
      [] OTHER -> {}

\* tracked_variables of each client object
ObjectTracked(ob) == IF ob.name = "a" THEN <<"v">> ELSE <<>>

\* expected_input_schema of each client object
ObjectSchema(ob) ==
    IF (ob.name = "c" /\ ob.id = "o1") \/ ob.name = "b"
    THEN [x \in {"v"} |-> "int"]
    ELSE <<>>

\* the fields of the nodes once object ob is the one registered under its name
Registers(ob) ==
    /\ node_object' = [node_object EXCEPT ![ob.name] = ob.id]
    /\ kind' = [kind EXCEPT ![ob.name] = ObjectKind(ob)]
    /\ logic_code' = [logic_code EXCEPT ![ob.name] = ObjectCode(ob)]
    /\ tracked_variables' = [tracked_variables EXCEPT ![ob.name] = ObjectTracked(ob)]
    /\ expected_input_schema' = [expected_input_schema EXCEPT ![ob.name] = ObjectSchema(ob)]

\* RuleEngine.add_node(node)
EngineAddNode(ob) ==
    /\ phase = "idle"
    /\ ob.name \in NodeSet \/ Len(nodes) < MaxNodes
    /\ LET g == DataFlowAddNode(Graph, ob.name)
       IN  /\ nodes' = g.nodes
           /\ dependencies' = g.dependencies
    /\ Registers(ob)
    /\ lastCall' = [NoCall EXCEPT !.op = "add_node"]
    /\ UNCHANGED <<nodeStateVars, runVars>>

\* the name conflict test of RuleEngine.add_dependency: another object is
\* registered under the name of ob
NameConflict(g, ob) == Contains(g.nodes, ob.name) /\ node_object[ob.name] # ob.id

\* RuleEngine.add_dependency(source_node, target_node) with two node objects:
\* the source is tested and registered, then the target, then the dependency
\* is added
EngineAddDependency(src, tgt) ==
    /\ phase = "idle"
    /\ LET g0 == Graph
           srcNew == ~Contains(g0.nodes, src.name)
           g1 == IF srcNew THEN DataFlowAddNode(g0, src.name) ELSE g0
           tgtNew == ~Contains(g1.nodes, tgt.name)
           g2 == IF tgtNew THEN DataFlowAddNode(g1, tgt.name) ELSE g1
           r  == DataFlowAddDependency(g2, src.name, tgt.name)
       IN  IF NameConflict(g0, src)
           THEN /\ lastCall' = [NoCall EXCEPT !.op = "add_dependency", !.raised = TRUE]
                /\ UNCHANGED <<graphVars, nodeCfgVars>>
           ELSE IF src.name # tgt.name /\ NameConflict(g1, tgt)
           THEN /\ Len(g1.nodes) <= MaxNodes
                /\ lastCall' = [NoCall EXCEPT !.op = "add_dependency", !.raised = TRUE]
                /\ nodes' = g1.nodes
                /\ dependencies' = g1.dependencies
                /\ IF srcNew THEN Registers(src) ELSE UNCHANGED nodeCfgVars
           ELSE /\ Len(g2.nodes) <= MaxNodes
                /\ Contains(GraphDeps(g2, tgt.name), src.name) \/ EdgeCount < MaxEdges
                /\ lastCall' = [NoCall EXCEPT !.op = "add_dependency", !.raised = r.raised]
                /\ nodes' = r.graph.nodes
                /\ dependencies' = r.graph.dependencies
                /\ IF srcNew /\ tgtNew /\ src.name # tgt.name
                   THEN /\ node_object' = [node_object EXCEPT ![src.name] = src.id,
                                                              ![tgt.name] = tgt.id]
                        /\ kind' = [kind EXCEPT ![src.name] = ObjectKind(src),
                                                ![tgt.name] = ObjectKind(tgt)]
                        /\ logic_code' = [logic_code EXCEPT ![src.name] = ObjectCode(src),
                                                            ![tgt.name] = ObjectCode(tgt)]
                        /\ tracked_variables' =
                               [tracked_variables EXCEPT ![src.name] = ObjectTracked(src),
                                                         ![tgt.name] = ObjectTracked(tgt)]
                        /\ expected_input_schema' =
                               [expected_input_schema EXCEPT ![src.name] = ObjectSchema(src),
                                                             ![tgt.name] = ObjectSchema(tgt)]
                   ELSE IF srcNew THEN Registers(src)
                   ELSE IF tgtNew THEN Registers(tgt)
                   ELSE UNCHANGED nodeCfgVars
    /\ UNCHANGED <<nodeStateVars, runVars>>

\* RuleEngine.add_dependency(None, target_node): the source is the node
\* registered as start_node
EngineAddDependencyFromStart(tgt) ==
    /\ "start_node" \in NodeSet
    /\ EngineAddDependency([name |-> "start_node", id |-> node_object["start_node"]], tgt)

\* node.__class__.__name__
ClassName(k) ==
    CASE k = "logic" -> "LogicNode"
      [] k = "gate" -> "GateNode"
      [] k = "collection" -> "CollectionNode"
      [] k = "start" -> "StartNode"

\* export_to_json writing the code of every node under 'logic_code'
CodeKeyAlwaysLogicCode(k) == IF k = "start" THEN "none" ELSE "logic_code"

\* the key export_to_json writes the code of a node of class k under
CodeKey(k) ==
    CASE k = "logic" -> "logic_code"
      [] k = "gate" -> "condition"
      [] k = "collection" -> "logic_code"
      [] OTHER -> "none"

\* one entry of config['nodes']
NodeConfig(n) ==
    [type |-> ClassName(kind[n]), name |-> n,
     tracked_variables |-> tracked_variables[n],
     expected_input_schema |-> expected_input_schema[n],
     code_key |-> CodeKey(kind[n]),
     code |-> IF CodeKey(kind[n]) = "none" THEN {} ELSE logic_code[n]]

\* RuleEngine.export_to_json: the node definitions without start_node, and
\* data_flow.dependencies
export_to_json ==
    LET exported == SelectSeq(nodes, LAMBDA n : n # "start_node")
    IN  [nodes |-> [i \in DOMAIN exported |-> NodeConfig(exported[i])],
         dependencies |-> dependencies]

\* the class import_from_json instantiates for a 'type' string
KindOfType(t) ==
    CASE t = "LogicNode" -> "logic"
      [] t = "GateNode" -> "gate"
      [] t = "CollectionNode" -> "collection"
      [] OTHER -> "unknown"

\* the code import_from_json sets on the node it creates from definition c
ImportedCode(c) ==
    LET wanted == IF c.type = "GateNode" THEN "condition" ELSE "logic_code"
    IN  IF c.code_key = wanted THEN c.code ELSE {}

\* the graph of a new RuleEngine
NewEngineGraph ==
    [nodes |-> <<"start_node">>, dependencies |-> <<[name |-> "start_node", deps |-> <<>>]>>]

\* the first loop of import_from_json: a node per definition of a known type
RECURSIVE ImportNodes(_, _)
ImportNodes(g, defs) ==
    IF defs = <<>> THEN g
    ELSE IF KindOfType(Head(defs).type) = "unknown"
         THEN ImportNodes(g, Tail(defs))
         ELSE ImportNodes(DataFlowAddNode(g, Head(defs).name), Tail(defs))

\* the (source, target) pairs of config['dependencies'], in iteration order
RECURSIVE DependencyPairs(_)
DependencyPairs(d) ==
    IF d = <<>> THEN <<>>
    ELSE [i \in DOMAIN Head(d).deps |-> <<Head(d).deps[i], Head(d).name>>]
             \o DependencyPairs(Tail(d))

\* the second loop of import_from_json: a dependency is added when both names
\* are registered
RECURSIVE RestoreDependencies(_, _)
RestoreDependencies(g, pairs) ==
    IF pairs = <<>> THEN g
    ELSE LET s == Head(pairs)[1]
             t == Head(pairs)[2]
         IN  IF Contains(g.nodes, s) /\ Contains(g.nodes, t)
             THEN RestoreDependencies(DataFlowAddDependency(g, s, t).graph, Tail(pairs))
             ELSE RestoreDependencies(g, Tail(pairs))

\* RuleEngine.import_from_json(config): the graph of the engine it returns and
\* the definitions its nodes were created from
import_from_json(config) ==
    LET known == SelectSeq(config.nodes, LAMBDA c : KindOfType(c.type) # "unknown")
    IN  [graph |-> RestoreDependencies(ImportNodes(NewEngineGraph, config.nodes),
                                        DependencyPairs(config.dependencies)),
         defs  |-> known]

\* the definition among defs that import_from_json created node n from
DefOf(defs, n) == defs[CHOOSE i \in DOMAIN defs : defs[i].name = n]

\* engine = RuleEngine.import_from_json(engine.export_to_json()): the client
\* goes on with the imported engine, whose nodes are new objects
ExportImport ==
    /\ phase = "idle"
    /\ LET e == import_from_json(export_to_json)
           made == {e.defs[i].name : i \in DOMAIN e.defs}
       IN  /\ nodes' = e.graph.nodes
           /\ dependencies' = e.graph.dependencies
           /\ node_object' = [n \in Names |->
                  IF n \in made \cup {"start_node"} THEN "j" ELSE node_object[n]]
           /\ kind' = [n \in Names |->
                  IF n \in made THEN KindOfType(DefOf(e.defs, n).type)
                  ELSE IF n = "start_node" THEN "start" ELSE kind[n]]
           /\ logic_code' = [n \in Names |->
                  IF n \in made THEN ImportedCode(DefOf(e.defs, n))
                  ELSE IF n = "start_node" THEN {} ELSE logic_code[n]]
           /\ tracked_variables' = [n \in Names |->
                  IF n \in made THEN DefOf(e.defs, n).tracked_variables
                  ELSE IF n = "start_node" THEN <<>> ELSE tracked_variables[n]]
           /\ expected_input_schema' = [n \in Names |->
                  IF n \in made THEN DefOf(e.defs, n).expected_input_schema
                  ELSE IF n = "start_node" THEN <<>> ELSE expected_input_schema[n]]
    /\ lastCall' = [NoCall EXCEPT !.op = "import_from_json"]
    /\ inputs' = [n \in Names |-> [handles |-> <<>>, ctx |-> <<>>]]
    /\ flow_context' = [n \in Names |-> <<>>]
    /\ should_continue' = [n \in Names |-> FALSE]
    /\ collected_data' = [n \in Names |-> <<>>]
    /\ context' = <<>>
    /\ execution_results' = [n \in Names |-> NoResult]
    /\ order' = <<>>
    /\ idx' = 1
    /\ outcome' = "none"
    /\ laterRun' = FALSE
    /\ invoked' = {}
    /\ bodyRan' = {}
    /\ recorded' = {}
    /\ lastUpdate' = NoUpdate
    /\ lastBody' = NoBody
    /\ UNCHANGED <<clock, phase>>

(***************************************************************************)
(* Initial states and specifications                                       *)
(***************************************************************************)
vars == <<graphVars, lastCall, nodeCfgVars, nodeStateVars, runVars>>

\* the state of freshly constructed nodes and of an engine that has not run,
\* on a host whose clock reads c0
FreshStateAt(c0) ==
    /\ node_object = [n \in Names |-> "o1"]
    /\ inputs = [n \in Names |-> [handles |-> <<>>, ctx |-> <<>>]]
    /\ flow_context = [n \in Names |-> <<>>]
    /\ should_continue = [n \in Names |-> FALSE]
    /\ collected_data = [n \in Names |-> <<>>]
    /\ context = <<>>
    /\ execution_results = [n \in Names |-> NoResult]
    /\ clock = c0
    /\ phase = "idle"
    /\ order = <<>>
    /\ idx = 1
    /\ outcome = "none"
    /\ laterRun = FALSE
    /\ invoked = {}
    /\ bodyRan = {}
    /\ recorded = {}
    /\ lastUpdate = NoUpdate
    /\ lastBody = NoBody
    /\ lastCall = NoCall

FreshState == FreshStateAt(0)

\* a body that binds v to an int, a str or a function object, or raises
LogicScript == {Raises, Binds([x \in {"v"} |-> "i1"]), Binds([x \in {"v"} |-> "s1"]),
                Binds([x \in {"v"} |-> "fn"])}

\* a body that binds nothing, or raises
PlainScript == {Raises, Yields(FALSE)}

\* the node objects the graph-editing specification registers
InitGraph ==
    /\ nodes = <<"start_node">>
    /\ dependencies = <<[name |-> "start_node", deps |-> <<>>]>>
    /\ kind = [n \in Names |-> CASE n = "start_node" -> "start" [] n = "a" -> "logic"
                                 [] n = "b" -> "gate" [] n = "c" -> "collection"]
    /\ logic_code = [n \in Names |-> {}]
    /\ tracked_variables = [n \in Names |-> <<>>]
    /\ expected_input_schema = [n \in Names |-> <<>>]
    /\ FreshState

NextGraph ==
    \/ \E n \in Names : DFAddNode(n)
    \/ \E s \in Names, t \in Names : DFAddDependency(s, t)
    \/ \E n \in Names : DFRemoveNode(n)
    \/ \E s \in Names, t \in Names : DFRemoveDependency(s, t)
    \/ DFGetExecutionOrder
    \/ DFValidateStructure

SpecGraph == InitGraph /\ [][NextGraph]_vars

KindOf(ka, kb, kc) ==
    [n \in Names |-> CASE n = "start_node" -> "start" [] n = "a" -> ka
                       [] n = "b" -> kb [] n = "c" -> kc]

\* an engine with nodes a, b, c whose dependency lists are da, db, dc
FullGraph(da, db, dc) ==
    /\ nodes = <<"start_node", "a", "b", "c">>
    /\ dependencies = <<[name |-> "start_node", deps |-> <<>>],
                        [name |-> "a", deps |-> da],
                        [name |-> "b", deps |-> db],
                        [name |-> "c", deps |-> dc]>>

\* the same engine after data_flow.remove_node("start_node")
StartRemoved(da, db, dc) ==
    /\ nodes = <<"a", "b", "c">>
    /\ dependencies = <<[name |-> "a", deps |-> RemoveFirst(da, "start_node")],
                        [name |-> "b", deps |-> RemoveFirst(db, "start_node")],
                        [name |-> "c", deps |-> RemoveFirst(dc, "start_node")]>>

\* the graphs of Spec: c depends on a and b (in either order) or on one of
\* them next to start_node; b depends on start_node or on a.  The invalid ones
\* leave b unreachable, close a cycle through c, or lack start_node.
ValidShapes ==
    {<<db, dc>> : db \in {<<"start_node">>, <<"a">>},
                  dc \in {<<"a", "b">>, <<"b", "a">>, <<"b">>, <<"start_node", "b">>,
                          <<"b", "start_node">>}}

InvalidShapes == {<< <<>>, <<"a", "b">> >>, << <<"c">>, <<"b">> >>, << <<"a">>, <<"a", "c">> >>}

\* engines built by add_dependency calls: admission of c behind a and the Gate b
Init ==
    /\ \E sh \in ValidShapes \cup InvalidShapes, startRemoved \in BOOLEAN :
         IF startRemoved /\ sh \in InvalidShapes
         THEN StartRemoved(<<"start_node">>, sh[1], sh[2])
         ELSE FullGraph(<<"start_node">>, sh[1], sh[2])
    /\ \E ka \in {"logic", "gate"}, kc \in {"logic", "collection"} :
         /\ kind = KindOf(ka, "gate", kc)
         /\ logic_code = [n \in Names |->
                CASE n = "start_node" -> {}
                  [] n = "a" -> IF ka = "gate" THEN GateScript ELSE SmallScript
                  [] n = "b" -> GateScript
                  [] n = "c" -> IF kc = "collection" THEN {} ELSE PlainScript]
    /\ tracked_variables = [n \in Names |-> IF n = "a" THEN <<"v">> ELSE <<>>]
    /\ expected_input_schema = [n \in Names |-> <<>>]
    /\ FreshState

Next ==
    \/ ExecuteStart
    \/ ExecuteNode
    \/ \E n \in Names : EngineRemoveNode(n)

Spec == Init /\ [][Next]_vars

\* engines start_node -> a -> c (and a -> b -> c): what c inherits from the
\* Logic node a, checked against c's schema, and what a and c publish
InitData ==
    /\ \E dc \in {<<"a">>, <<"a", "b">>} : FullGraph(<<"start_node">>, <<"a">>, dc)
    /\ \E kc \in {"logic", "gate", "collection"} :
         /\ kind = KindOf("logic", "gate", kc)
         /\ logic_code = [n \in Names |->
                CASE n = "start_node" -> {}
                  [] n = "a" -> LogicScript
                  [] n = "b" -> {Yields(TRUE), Yields(FALSE)}
                  [] n = "c" -> IF kc = "gate" THEN GateScript ELSE LogicScript]
    /\ tracked_variables = [n \in Names |-> IF n \in {"a", "c"} THEN <<"v">> ELSE <<>>]
    /\ \E sa \in {<<>>, [x \in {"v"} |-> "int"]} :
         expected_input_schema = [n \in Names |-> IF n \in {"b", "c"} THEN sa ELSE <<>>]
    /\ FreshState

NextData ==
    \/ ExecuteStart
    \/ ExecuteNode

SpecData == InitData /\ [][NextData]_vars

\* engines with two producers a (v = int) and b (v = str) behind start_node
\* and a Gate or Collection c that lists b, which publishes later, before a;
\* the clock starts one reading earlier, so that the readings of a's publish,
\* b's publish and the two inheritance writes of c can all differ
InitRecency ==
    /\ FullGraph(<<"start_node">>, <<"start_node">>, <<"b", "a">>)
    /\ \E kc \in {"gate", "collection"} :
         /\ kind = KindOf("logic", "logic", kc)
         /\ logic_code = [n \in Names |->
                CASE n = "start_node" -> {}
                  [] n = "a" -> {Binds([x \in {"v"} |-> "i1"])}
                  [] n = "b" -> {Binds([x \in {"v"} |-> "s1"])}
                  [] n = "c" -> IF kc = "gate" THEN {Yields(TRUE)} ELSE {}]
    /\ tracked_variables = [n \in Names |-> IF n \in {"a", "b"} THEN <<"v">> ELSE <<>>]
    /\ expected_input_schema = [n \in Names |-> <<>>]
    /\ FreshStateAt(-1)

SpecRecency == InitRecency /\ [][NextData]_vars

\* a body that binds v to an int, or binds nothing
ProducerScript == {Binds([x \in {"v"} |-> "i1"]), Binds(<<>>)}

\* a body that binds v to a str, or raises
OtherProducerScript == {Binds([x \in {"v"} |-> "s1"]), Raises}

\* a body that binds v to an int, binds nothing, or raises
ConsumerScript == {Binds([x \in {"v"} |-> "i1"]), Binds(<<>>), Raises}

\* the schemas of the consumer: none, v as int, v and w as int
ConsumerSchemas == {<<>>, [x \in {"v"} |-> "int"], [x \in {"v", "w"} |-> "int"]}

\* engines with two producers a and b of v behind start_node and a consumer c
\* that lists them in either order
InitFlow ==
    /\ \E dc \in {<<"a", "b">>, <<"b", "a">>} :
         FullGraph(<<"start_node">>, <<"start_node">>, dc)
    /\ \E kc \in {"logic", "collection"}, withCode \in BOOLEAN :
         /\ kind = KindOf("logic", "logic", kc)
         /\ logic_code = [n \in Names |->
                CASE n = "start_node" -> {}
                  [] n = "a" -> ProducerScript
                  [] n = "b" -> OtherProducerScript
                  [] n = "c" -> IF kc = "collection" /\ ~withCode THEN {}
                                ELSE ConsumerScript]
         /\ withCode \/ kc = "collection"
         /\ \E ta \in {<<>>, <<"v">>} :
              tracked_variables = [n \in Names |->
                 CASE n = "a" -> ta
                   [] n = "b" -> <<"v">>
                   [] n = "c" -> <<"v">>
                   [] OTHER -> <<>>]
    /\ \E sc \in ConsumerSchemas :
         expected_input_schema = [n \in Names |-> IF n = "c" THEN sc ELSE <<>>]
    /\ FreshState

NextFlow ==
    \/ ExecuteStart
    \/ ExecuteNode
    \/ Reset
    \/ ClearAllNodesFlowContext

SpecFlow == InitFlow /\ [][NextFlow]_vars

\* the (source, target) names the client wires with add_dependency: a before
\* b before c, c back to a, and a in front of the engine's start_node
ClientWiring == {<<"a", "b">>, <<"a", "c">>, <<"b", "c">>, <<"c", "a">>, <<"a", "start_node">>}

\* a new RuleEngine, and the node objects the client has constructed
InitEngine ==
    /\ nodes = NewEngineGraph.nodes
    /\ dependencies = NewEngineGraph.dependencies
    /\ kind = [n \in Names |-> ObjectKind([name |-> n, id |-> "o1"])]
    /\ logic_code = [n \in Names |-> ObjectCode([name |-> n, id |-> "o1"])]
    /\ tracked_variables = [n \in Names |-> ObjectTracked([name |-> n, id |-> "o1"])]
    /\ expected_input_schema = [n \in Names |-> ObjectSchema([name |-> n, id |-> "o1"])]
    /\ FreshState

NextEngine ==
    \/ \E ob \in ClientObjects : EngineAddNode(ob)
    \/ \E src \in ClientObjects, tgt \in ClientObjects :
          <<src.name, tgt.name>> \in ClientWiring /\ EngineAddDependency(src, tgt)
    \/ \E tgt \in ClientObjects : EngineAddDependencyFromStart(tgt)
    \/ ExportImport

SpecEngine == InitEngine /\ [][NextEngine]_vars

\* engines start_node -> a -> b -> c in which c also depends on start_node:
\* the Logic node a publishes v, the Gate b inherits it and passes or raises,
\* and c is a Collection without code or a Logic node that tracks v without
\* binding it
InitReset ==
    /\ FullGraph(<<"start_node">>, <<"a">>, <<"b", "start_node">>)
    /\ \E kc \in {"logic", "collection"} :
         /\ kind = KindOf("logic", "gate", kc)
         /\ logic_code = [n \in Names |->
                CASE n = "start_node" -> {}
                  [] n = "a" -> {Binds([x \in {"v"} |-> "i1"])}
                  [] n = "b" -> {Yields(TRUE), Raises}
                  [] n = "c" -> IF kc = "logic" THEN {Binds(<<>>)} ELSE {}]
         /\ tracked_variables = [n \in Names |->
                IF n = "a" \/ (n = "c" /\ kc = "logic") THEN <<"v">> ELSE <<>>]
    /\ expected_input_schema = [n \in Names |-> <<>>]
    /\ FreshState

NextReset ==
    \/ ExecuteStart
    \/ ExecuteNode
    \/ Reset

SpecReset == InitReset /\ [][NextReset]_vars

(***************************************************************************)
(* Graph notions the properties are stated with                            *)
(***************************************************************************)
\* target t depends on source s
Edge(s, t) == Contains(get_node_dependencies(t), s)

RECURSIVE ForwardClosure(_)
ForwardClosure(S) ==
    LET T == S \cup {t \in NodeSet : \E s \in S : Edge(s, t)}
    IN  IF T = S THEN S ELSE ForwardClosure(T)

\* the nodes a chain of one or more dependency edges leads to from n
Descendants(n) == ForwardClosure({t \in NodeSet : Edge(n, t)})

HasCycle == \E n \in NodeSet : n \in Descendants(n)

ReachableFromStart == {"start_node"} \cup Descendants("start_node")

StructurallyValid ==
    /\ "start_node" \in NodeSet
    /\ ~HasCycle
    /\ NodeSet \subseteq ReachableFromStart

Deps(n) == Range(get_node_dependencies(n))

\* a dependency that admits its dependents
Viable(d) == Succeeded(d) /\ (kind[d] = "gate" => should_continue[d])

NoViableDependency(n) == Deps(n) # {} /\ \A d \in Deps(n) : ~Viable(d)

IsBlocked(n) == ~execution_results[n].success /\ execution_results[n].status = "blocked"

Position(n) == CHOOSE i \in DOMAIN order : order[i] = n

(***************************************************************************)
(* Properties                                                              *)
(***************************************************************************)
\* C1: a node that got its result in the current run (the graph not edited
\* since the call) is blocked if and only if it has dependencies and none of
\* them is viable (OR-semantics of admission).
OrAdmission ==
    lastCall.op = "get_execution_order" =>
        \A n \in recorded : IsBlocked(n) <=> NoViableDependency(n)

\* C2: when every dependency of the node the loop is about to handle is
\* non-viable, the step records a blocked result, does not invoke the node's
\* execute, and leaves the node's inputs and flow-context as they were.
AllPathsBlocked ==
    [][(phase = "running" /\ NoViableDependency(order[idx])) =>
          /\ execution_results'[order[idx]].status = "blocked"
          /\ ~execution_results'[order[idx]].success
          /\ order[idx] \notin invoked'
          /\ inputs'[order[idx]] = inputs[order[idx]]
          /\ flow_context'[order[idx]] = flow_context[order[idx]]]_vars

\* a node is refused in a later run while it still holds the handles and the
\* flow-context of an earlier run
AllPathsBlockedWitness ==
    /\ phase = "idle" /\ outcome = "returned" /\ "c" \in recorded
    /\ NoViableDependency("c")
    /\ IsBlocked("c")
    /\ flow_context["c"] # <<>>
    /\ inputs["c"].handles # <<>>

\* C3: the loop of execute() handles the nodes of the order one by one whatever
\* their outcome: while it runs, the next node is a registered one and the
\* nodes before it have their results; a call that returned has recorded a
\* result for every registered node (the graph not edited since the call).
EveryNodeGetsResult ==
    /\ phase = "running" =>
          /\ idx \in 1..Len(order)
          /\ recorded = {order[i] : i \in 1..(idx - 1)}
          /\ \A n \in recorded : HasResult(n)
          /\ order[idx] \in NodeSet
    /\ (outcome = "returned" /\ lastCall.op = "get_execution_order") =>
          /\ phase = "idle"
          /\ idx = Len(order) + 1
          /\ recorded = NodeSet
          /\ \A n \in NodeSet : HasResult(n)

\* a run returned in which a failed and b, handled after a, still succeeded
EveryNodeGetsResultWitness ==
    /\ outcome = "returned" /\ lastCall.op = "get_execution_order"
    /\ {"a", "b", "c"} \subseteq recorded
    /\ execution_results["a"].status = "failed"
    /\ execution_results["b"].success
    /\ Position("a") < Position("b")

\* a step that is an execute() call: the engine is idle and the graph stays
ExecuteCallStep == phase = "idle" /\ UNCHANGED graphVars

\* C4: an execute() call on a structurally invalid graph raises before the
\* loop: it ends idle, invokes no node, records no result, and changes no
\* node's inputs, flow-context or should_continue.
StructuralAbort ==
    [][(ExecuteCallStep /\ ~StructurallyValid) =>
          /\ phase' = "idle"
          /\ outcome' = "raised"
          /\ invoked' = {}
          /\ UNCHANGED <<execution_results, nodeStateVars>>]_vars

\* an execute() raised on a graph that an earlier, completed run left its
\* results and flow-context on, and that has since lost a node
StructuralAbortWitness ==
    /\ outcome = "raised"
    /\ laterRun
    /\ ~StructurallyValid
    /\ "start_node" \in NodeSet
    /\ \E n \in NodeSet : flow_context[n] # <<>> /\ HasResult(n)

\* C5: on an acyclic graph get_execution_order returns every registered node
\* exactly once, each after all of its dependencies.
TopologicalValidity ==
    (lastCall.op = "get_execution_order" /\ ~HasCycle) =>
        /\ ~lastCall.raised
        /\ Len(lastCall.order) = Cardinality(NodeSet)
        /\ Range(lastCall.order) = NodeSet
        /\ \A i \in DOMAIN lastCall.order, j \in DOMAIN lastCall.order :
               Edge(lastCall.order[i], lastCall.order[j]) => i < j

\* an order of three nodes was returned, one of which has two dependencies
TopologicalValidityWitness ==
    /\ lastCall.op = "get_execution_order"
    /\ ~lastCall.raised
    /\ Len(lastCall.order) = 3
    /\ \E n \in NodeSet : Len(get_node_dependencies(n)) = 2

Reachability ==
    (lastCall.op = "validate_structure" /\ "start_node" \in NodeSet) =>
        /\ \A n \in NodeSet :
               ErrUnreachable(n) \in Range(lastCall.errors) <=> n \notin ReachableFromStart
        /\ HasCycle => ErrCycle \in Range(lastCall.errors)
        /\ \A i \in DOMAIN lastCall.errors :
               lastCall.errors[i].err = "unreachable" => lastCall.errors[i].node \in NodeSet

\* one list holds an unreachable node and the cycle, next to a reachable node
ReachabilityWitness ==
    /\ lastCall.op = "validate_structure"
    /\ ErrCycle \in Range(lastCall.errors)
    /\ \E n \in NodeSet : ErrUnreachable(n) \in Range(lastCall.errors)
    /\ \E n \in NodeSet \ {"start_node"} : n \in ReachableFromStart

\* C8: a node whose execute() was invoked in the current run (the graph not
\* edited since the call) holds a handle to its dependency d if and only if d
\* is viable in the current run.
HandlesAreViableDependencies ==
    lastCall.op = "get_execution_order" =>
        \A n \in invoked : \A d \in Deps(n) :
            Contains(inputs[n].handles, d) <=> Viable(d)

\* C9: a Logic or Gate node that inherits a value failing its schema gets a
\* result with success=false, status=failed and its own node_type, and its
\* body is not run.
ValidationFailureIsFailed ==
    \A n \in recorded :
        (kind[n] \in {"logic", "gate"} /\ execution_results[n].error = "validation") =>
            /\ ~execution_results[n].success
            /\ execution_results[n].status = "failed"
            /\ execution_results[n].node_type = kind[n]
            /\ n \notin bodyRan

\* C10: an update_flow_context call that raises on a non-serialisable value
\* leaves the flow-context as it found it, and a node whose publication of a
\* tracked variable raised gets success=false with status=failed.
SerializabilityFailure ==
    /\ lastUpdate.raised => lastUpdate.after = lastUpdate.before
    /\ \A n \in recorded :
           execution_results[n].error = "serialization" =>
               /\ ~execution_results[n].success
               /\ execution_results[n].status = "failed"

\* a node that had inherited v failed to publish a function object
SerializabilityFailureWitness ==
    /\ lastUpdate.raised
    /\ lastUpdate.before # <<>>
    /\ lastUpdate.node \in recorded
    /\ execution_results[lastUpdate.node].error = "serialization"

\* C11: when the body of a Logic node completed and the node succeeded, every
\* tracked variable the body bound is in the node's flow-context with the
\* body's value and the node itself as source, whatever was inherited or left
\* over for that variable.
ClosestProducerWins ==
    \A n \in NodeSet :
        (lastBody.node = n /\ kind[n] = "logic" /\ execution_results[n].success) =>
            \A x \in (DOMAIN lastBody.assign) \cap Range(tracked_variables[n]) :
                /\ x \in FcKeys(flow_context[n])
                /\ FcEntry(flow_context[n], x).value = lastBody.assign[x]
                /\ FcEntry(flow_context[n], x).source = n

\* the step just taken ran execute() of node n, in a call whose graph was not
\* edited since
JustExecuted(n) ==
    /\ lastCall.op = "get_execution_order"
    /\ idx > 1
    /\ order[idx - 1] = n
    /\ n \in invoked

\* merge_flow_context_from_inputs of node n writes inherited variable x
Inherits(n, x) == ~(kind[n] = "collection" /\ x \in DOMAIN expected_input_schema[n])

\* the body of node n, if one completed in the last step, did not bind x
NotBoundByBody(n, x) == lastBody.node = n => x \notin DOMAIN lastBody.assign

\* C12: when a node has just executed successfully without binding x itself,
\* two of its handles p and q carry x, and the node's own entry for x was
\* stamped after both of theirs (every clock reading differed), the node's
\* flow-context holds the value of the one whose stored timestamp is later.
RecencyWinsBetweenAncestors ==
    \A n \in NodeSet, x \in Vars :
        (JustExecuted(n) /\ execution_results[n].success /\ Inherits(n, x)
            /\ NotBoundByBody(n, x)) =>
            \A p \in Range(inputs[n].handles), q \in Range(inputs[n].handles) :
                (/\ x \in FcKeys(flow_context[p])
                 /\ x \in FcKeys(flow_context[q])
                 /\ x \in FcKeys(flow_context[n])
                 /\ FcEntry(flow_context[p], x).time > FcEntry(flow_context[q], x).time
                 /\ FcEntry(flow_context[n], x).time > FcEntry(flow_context[p], x).time) =>
                    FcEntry(flow_context[n], x).value = FcEntry(flow_context[p], x).value

\* every variable of the schema of n is in the flow-context of p and passes
\* its type check
SatisfiesSchema(n, p) ==
    \A x \in DOMAIN expected_input_schema[n] :
        /\ x \in FcKeys(flow_context[p])
        /\ Validate(FcEntry(flow_context[p], x).value, expected_input_schema[n][x])

\* C13 as stated: after a Collection node executed, its collected map has an
\* entry for handle p if and only if p satisfies the whole schema.
CollectionAllOrNothingAnyHandle ==
    \A n \in NodeSet :
        (JustExecuted(n) /\ kind[n] = "collection") =>
            \A p \in Range(inputs[n].handles) :
                p \in DOMAIN collected_data[n] <=> SatisfiesSchema(n, p)

\* C13: after a Collection node executed, its collected map has an entry for
\* handle p if and only if the flow-context of p is not empty and satisfies
\* the whole schema; the entry maps exactly the variables of the schema to
\* their values in p, and only handles have entries.
CollectionAllOrNothing ==
    \A n \in NodeSet :
        (JustExecuted(n) /\ kind[n] = "collection") =>
            /\ DOMAIN collected_data[n] \subseteq Range(inputs[n].handles)
            /\ \A p \in Range(inputs[n].handles) :
                   /\ p \in DOMAIN collected_data[n] <=>
                          (flow_context[p] # <<>> /\ SatisfiesSchema(n, p))
                   /\ p \in DOMAIN collected_data[n] =>
                          collected_data[n][p] =
                              [x \in DOMAIN expected_input_schema[n] |->
                                   FcEntry(flow_context[p], x).value]

\* a Collection with a schema has just kept one handle and dropped another
\* whose flow-context is not empty
CollectionAllOrNothingWitness ==
    \E n \in NodeSet, p \in NodeSet, q \in NodeSet :
        /\ JustExecuted(n) /\ kind[n] = "collection"
        /\ expected_input_schema[n] # <<>>
        /\ {p, q} \subseteq Range(inputs[n].handles)
        /\ p \in DOMAIN collected_data[n]
        /\ q \notin DOMAIN collected_data[n]
        /\ flow_context[q] # <<>>

\* C14: when the body of a Logic node completed and no publish raised, the
\* node's result is a success whose payload maps exactly the tracked variables
\* that have an entry in the node's flow-context to the values of the entries.
LogicPayloadIsTrackedSubset ==
    \A n \in NodeSet :
        (lastBody.node = n /\ kind[n] = "logic"
            /\ execution_results[n].error # "serialization") =>
            /\ execution_results[n].success
            /\ execution_results[n].data.vals =
                   [x \in Range(tracked_variables[n]) \cap FcKeys(flow_context[n]) |->
                        FcEntry(flow_context[n], x).value]

\* C15: after a Logic, Gate or Collection node executed successfully, its
\* flow-context contains every variable of the flow-context of each handle in
\* its inputs.
InheritancePropagates ==
    \A n \in NodeSet :
        (JustExecuted(n) /\ kind[n] # "start" /\ execution_results[n].success) =>
            \A p \in Range(inputs[n].handles) :
                FcKeys(flow_context[p]) \subseteq FcKeys(flow_context[n])

\* C16: once an execute() call has returned or raised, execution_results holds
\* only results recorded by that call.
ResultsOnlyFromThisCall ==
    outcome \in {"returned", "raised"} =>
        \A n \in Names : HasResult(n) => n \in recorded

\* a step of an execute() call: its validation and ordering, or one iteration
\* of its loop
ExecuteStep ==
    /\ UNCHANGED graphVars
    /\ lastCall'.op \in {"validate_structure", "get_execution_order"}

\* the step is the iteration of a later run on node n, and leaves n a result
\* that is not a success (blocked or failed)
BlockedOrFailedLater(n) ==
    /\ phase = "running"
    /\ laterRun
    /\ order[idx] = n
    /\ ~execution_results'[n].success

Occurrences(s, x) == Cardinality({i \in DOMAIN s : s[i] = x})

\* C19: on every graph and for every pair of names, add_dependency(s, t)
\* raises exactly when s or t is not registered and then leaves nodes and
\* dependencies as they were; otherwise s occurs exactly once in the
\* dependency list of t afterwards, and applying the call a second time does
\* not raise and leaves the graph the first call left.
AddDependencyIdempotent ==
    \A s \in Names, t \in Names :
        LET once  == DataFlowAddDependency(Graph, s, t)
            twice == DataFlowAddDependency(once.graph, s, t)
        IN  /\ once.raised <=> (s \notin NodeSet \/ t \notin NodeSet)
            /\ once.raised => once.graph = Graph
            /\ ~once.raised =>
                   /\ Occurrences(GraphDeps(once.graph, t), s) = 1
                   /\ ~twice.raised
                   /\ twice.graph = once.graph

\* add_dependency has just returned on a graph where some node lists two
\* dependencies, and some name is not registered
AddDependencyIdempotentWitness ==
    /\ lastCall.op = "add_dependency" /\ ~lastCall.raised
    /\ \E t \in NodeSet : Len(get_node_dependencies(t)) = 2
    /\ NodeSet # Names

\* C18: no add_node or add_dependency call of the engine replaces the object
\* registered under a name by another object, and a call that raises leaves
\* the registered nodes and all dependency lists as they were.
RegisteredObjectsKept ==
    [][lastCall'.op \in {"add_node", "add_dependency"} =>
          /\ \A n \in NodeSet : n \in NodeSet' /\ node_object'[n] = node_object[n]
          /\ lastCall'.raised => UNCHANGED graphVars]_vars

\* every node of the engine other than start_node is a Logic, Gate or
\* Collection node
OnlyEngineClasses ==
    \A n \in NodeSet \ {"start_node"} : kind[n] \in {"logic", "gate", "collection"}

\* C20: import_from_json(export_to_json(engine)) of an engine built from
\* Logic, Gate and Collection nodes has the same node names, for each node
\* other than start_node the same class, tracked variables, expected input
\* schema and code, and for each node the same dependency list; start_node is
\* not among the exported definitions and is registered after the import.
RoundTrip ==
    [][(lastCall'.op = "import_from_json" /\ OnlyEngineClasses) =>
          /\ NodeSet' = NodeSet
          /\ "start_node" \in NodeSet'
          /\ \A i \in DOMAIN export_to_json.nodes :
                 export_to_json.nodes[i].name # "start_node"
          /\ \A n \in NodeSet \ {"start_node"} :
                 /\ kind'[n] = kind[n]
                 /\ tracked_variables'[n] = tracked_variables[n]
                 /\ expected_input_schema'[n] = expected_input_schema[n]
                 /\ logic_code'[n] = logic_code[n]
          /\ \A n \in NodeSet : get_node_dependencies(n)' = get_node_dependencies(n)]_vars

\* an engine has just been imported that holds a Gate with a condition and a
\* Collection with a schema and two dependencies
RoundTripWitness ==
    /\ lastCall.op = "import_from_json"
    /\ OnlyEngineClasses
    /\ \A n \in NodeSet : node_object[n] = "j"
    /\ \E n \in NodeSet, m \in NodeSet :
         /\ kind[n] = "gate" /\ logic_code[n] # {}
         /\ kind[m] = "collection" /\ expected_input_schema[m] # <<>>
         /\ Len(get_node_dependencies(m)) = 2

\* C21: in every state the engine's construction operations reach, a node
\* named start_node is registered, it is the Start node, and its dependency
\* list is empty.
StartNodeInvariant ==
    /\ "start_node" \in NodeSet
    /\ kind["start_node"] = "start"
    /\ get_node_dependencies("start_node") = <<>>

\* the times a call of update_flow_context can read: any reading of the
\* clock, and one before the first
CallTimes == (-1)..MaxClock

\* C22: update_flow_context with a serialisable value, on any flow-context a
\* run leaves and at any time: when the variable has an entry, the entry
\* becomes (value, source, time of the call) if that time is strictly later
\* than the stored timestamp and the flow-context is unchanged otherwise; when
\* it has none, the entry is inserted; no other entry changes, and the
\* timestamp stored for the variable never decreases.
MergeRule ==
    \A n \in NodeSet, x \in Vars, value \in {y \in Values : Serializable(y)},
       source \in NodeSet, t \in CallTimes :
        LET fc    == flow_context[n]
            r     == update_flow_context(fc, x, value, source, t)
            entry == [var |-> x, value |-> value, source |-> source, time |-> t]
        IN  /\ ~r.raised
            /\ x \in FcKeys(r.fc)
            /\ x \in FcKeys(fc) =>
                   /\ t > FcEntry(fc, x).time => FcEntry(r.fc, x) = entry
                   /\ ~(t > FcEntry(fc, x).time) => r.fc = fc
                   /\ FcEntry(r.fc, x).time >= FcEntry(fc, x).time
            /\ x \notin FcKeys(fc) => FcEntry(r.fc, x) = entry
            /\ \A y \in FcKeys(fc) \ {x} :
                   y \in FcKeys(r.fc) /\ FcEntry(r.fc, y) = FcEntry(fc, y)
            /\ FcKeys(r.fc) = FcKeys(fc) \cup {x}

\* the last update_flow_context call of a node found an entry stamped with the
\* reading it made itself, and left the flow-context as it was
MergeRuleWitness ==
    /\ lastUpdate.node \in NodeSet
    /\ ~lastUpdate.raised
    /\ lastUpdate.before # <<>>
    /\ lastUpdate.after = lastUpdate.before
    /\ \E x \in FcKeys(lastUpdate.before) : FcEntry(lastUpdate.before, x).time = clock

\* C23: whenever the loop of execute() is about to decide the admission of a
\* node, in a first or a later run, every dependency of that node has a result
\* that was recorded during the current run.
JoinBeforeAdmission ==
    phase = "running" =>
        \A d \in Range(get_node_dependencies(order[idx])) :
            d \in recorded /\ HasResult(d)

\* a later run is about to decide a node with two dependencies, one of which
\* succeeded in this run and one of which did not
JoinBeforeAdmissionWitness ==
    /\ phase = "running"
    /\ laterRun
    /\ \E p \in NodeSet, q \in NodeSet :
         /\ get_node_dependencies(order[idx]) = <<p, q>>
         /\ {p, q} \subseteq recorded
         /\ execution_results[p].success
         /\ ~execution_results[q].success

\* the position in order o at which node n became ready: 0 when it has no
\* dependencies, else the position of the last of its dependencies
ReadyAt(o, n) ==
    IF get_node_dependencies(n) = <<>> THEN 0
    ELSE CHOOSE k \in DOMAIN o :
             /\ o[k] \in Range(get_node_dependencies(n))
             /\ \A d \in Range(get_node_dependencies(n)) : IndexOf(o, d) <= k

\* C24: the order a get_execution_order call returned is the one a second call
\* on the unchanged graph returns, the call left the graph as it was, and the
\* order is fixed by registration: nodes that became ready at the same point
\* (those without dependencies, or those released by the same node) stand in
\* registration order, and a node that became ready earlier stands before one
\* that became ready later.
ReproducibleOrder ==
    (lastCall.op = "get_execution_order" /\ ~lastCall.raised) =>
        LET o == lastCall.order
        IN  /\ get_execution_order = [raised |-> FALSE, order |-> o]
            /\ Range(o) = NodeSet /\ Len(o) = Len(nodes)
            /\ \A x \in NodeSet, y \in NodeSet :
                   /\ (ReadyAt(o, x) = ReadyAt(o, y) /\ IndexOf(nodes, x) < IndexOf(nodes, y))
                          => IndexOf(o, x) < IndexOf(o, y)
                   /\ ReadyAt(o, x) < ReadyAt(o, y) => IndexOf(o, x) < IndexOf(o, y)

\* an order was returned for a graph in which two nodes are released by the
\* same node, and the one registered first has the later name
ReproducibleOrderWitness ==
    /\ lastCall.op = "get_execution_order" /\ ~lastCall.raised
    /\ \E x \in NodeSet, y \in NodeSet :
         /\ x # y
         /\ get_node_dependencies(x) # <<>>
         /\ ReadyAt(lastCall.order, x) = ReadyAt(lastCall.order, y)
         /\ IndexOf(nodes, x) < IndexOf(nodes, y)
         /\ x = "c"

\* C25: in every graph validate_structure accepts, start_node has no
\* dependencies, every other registered node has at least one, and
\* get_execution_order returns an order that begins with start_node.
ValidGraphShape ==
    validate_structure.valid =>
        /\ get_node_dependencies("start_node") = <<>>
        /\ \A n \in NodeSet \ {"start_node"} : get_node_dependencies(n) # <<>>
        /\ ~get_execution_order.raised
        /\ get_execution_order.order # <<>>
        /\ get_execution_order.order[1] = "start_node"

\* validate_structure has just accepted a graph of three nodes in which
\* start_node was not the first to be registered
ValidGraphShapeWitness ==
    /\ lastCall.op = "validate_structure" /\ lastCall.valid
    /\ Len(nodes) = 3
    /\ nodes[1] # "start_node"

\* C26: after any sequence of add_node, add_dependency, remove_node and
\* remove_dependency calls the dependency map has exactly the registered names
\* as keys, each once, every name in a dependency list is registered, and no
\* list holds a name twice.
ReferentialIntegrity ==
    /\ DepKeys = NodeSet
    /\ Len(dependencies) = Cardinality(NodeSet)
    /\ Len(nodes) = Cardinality(NodeSet)
    /\ \A n \in NodeSet :
           /\ Range(get_node_dependencies(n)) \subseteq NodeSet
           /\ \A d \in Range(get_node_dependencies(n)) :
                  Occurrences(get_node_dependencies(n), d) = 1

\* remove_node has just returned on a graph that still has an edge, after a
\* node was taken out of a graph of three
ReferentialIntegrityWitness ==
    /\ lastCall.op = "remove_node"
    /\ Len(nodes) = 2
    /\ EdgeCount >= 1
    /\ "start_node" \notin NodeSet

\* C27: an iteration of the loop of execute() that leaves its node a result
\* that is not a success (failed or blocked) leaves the flow-context of that
\* node as it was; a node is visited once per run, so this is its
\* flow-context before the run.
FlowContextAtomic ==
    [][(ExecuteStep /\ phase = "running" /\ ~execution_results'[order[idx]].success) =>
          flow_context'[order[idx]] = flow_context[order[idx]]]_vars

\* Node.inputs of a newly constructed node
FreshInputs == [handles |-> <<>>, ctx |-> <<>>]

\* what execute() records for a node whose execute() handed back x
Observed(x) == IF x.exc # "none" THEN HandlerResult(x.exc) ELSE x.res

\* the running call is the first one since reset(): no result of an earlier
\* call is left
FirstRunSinceReset == laterRun /\ \A m \in NodeSet \ recorded : ~HasResult(m)

\* C28: in the first execute() after reset(), the node about to be executed
\* gets, for every outcome of its script and every clock, the result it would
\* get with the inputs of a newly constructed node: the same success, status
\* and payload.
ResetRestoresFresh ==
    (phase = "running" /\ FirstRunSinceReset
        /\ ~BlockedByGate(order[idx]) /\ ~AllDependenciesFailed(order[idx])) =>
        LET n == order[idx]
        IN  \A body \in Bodies(n), ticks \in [1..MaxReads -> {0, 1}] :
                LET used  == NodeExecute(n, AddInputs(inputs[n], _get_node_inputs(n)), body, ticks)
                    fresh == NodeExecute(n, AddInputs(FreshInputs, _get_node_inputs(n)), body, ticks)
                IN  Observed(used) = Observed(fresh)

\* C29: every result recorded by the current execute() has success = true if
\* and only if its status is executed, and a result that is not a success has
\* status failed or blocked.
OutcomeConsistency ==
    lastCall.op = "get_execution_order" =>
        \A n \in recorded :
            /\ execution_results[n].success <=> execution_results[n].status = "executed"
            /\ ~execution_results[n].success =>
                   execution_results[n].status \in {"failed", "blocked"}

\* C30: add_node of a node object that is already registered under its name
\* leaves the graph unchanged: the same nodes and, for every node, the
\* dependencies already recorded for it.
AddNodeIdempotent ==
    [][(/\ lastCall'.op = "add_node"
        /\ NodeSet' = NodeSet
        /\ node_object' = node_object) => UNCHANGED graphVars]_vars

====
